---- MODULE Spec2Model ----
(***************************************************************************)
(* dioxus-websocket-hooks (src/src/lib.rs): the DioxusWs connection        *)
(* wrapper, its lifecycle callbacks, the outbound gate (send, send_text,   *)
(* send_json) and the three provider forms wiring the inbound handler.     *)
(*                                                                         *)
(* Strings are sequences of one-character strings, byte vectors are        *)
(* sequences of integers.  Every callback and every call runs to           *)
(* completion, so each is one action.  The observable output of the last   *)
(* call (transport calls, log entries, handler invocations, in program     *)
(* order) is the variable effects; call names the last call and its input. *)
(***************************************************************************)
EXTENDS Integers, Sequences, FiniteSets

VARIABLES
    hookRan,    \* cx.use_hook has run its initializer for this scope
    provided,   \* a DioxusWs is in the context store (cx.provide_context)
    connected,  \* DioxusWs.connected : Rc<RefCell<bool>>
    onMessage,  \* handler form held by the EventClient's on_message slot
    panicked,   \* a panic (unwrap on Err) has terminated the program
    call,       \* the last call: operation and input
    effects,    \* what the last call did, in program order
    events,     \* lifecycle events delivered so far, oldest first
    delivered,  \* inbound messages delivered so far, oldest first
    handled,    \* handler invocations so far, oldest first
    past,       \* outcomes of the calls before the last one
    slot,       \* the handler closure held by the on_message slot
    latest,     \* the handler closure last passed to a provider
    invoked,    \* the handler closure the last call ran
    news,       \* calls of DioxusWs::new so far
    clients,    \* EventClients constructed so far
    contexts,   \* calls of cx.provide_context so far
    handles,    \* the DioxusWs values use_ws_context has returned
    returned,   \* what the last call gave its caller
    torn,       \* the scope that owns the hook and the context is dropped
    stack,      \* the frames of the call in progress, innermost last
    borrows,    \* the outstanding borrows of the two RefCells
    body,       \* what the handler in the on_message slot does with a message
    borrowFailed \* a borrow()/borrow_mut() has panicked (already borrowed)

vars == <<hookRan, provided, connected, onMessage, panicked, call, effects,
          events, delivered, handled, past, slot, latest, invoked, news,
          clients, contexts, handles, returned, torn,
         stack, borrows, body, borrowFailed>>

-----------------------------------------------------------------------------
(* Bounds *)

\* callbacks (lifecycle events and inbound messages) the transport delivers
MaxCallbacks == 2

-----------------------------------------------------------------------------
(* Messages, values and inputs *)

\* wasm_sockets::Message::Text(String)
Text(t) == [variant |-> "Text", text |-> t, bytes |-> <<>>]

\* wasm_sockets::Message::Binary(Vec<u8>)
Binary(b) == [variant |-> "Binary", text |-> <<>>, bytes |-> b]

\* a String or &str argument
Str(t) == [variant |-> "Str", text |-> t, bytes |-> <<>>]

\* a Vec<u8> argument
Vec(b) == [variant |-> "Vec", text |-> <<>>, bytes |-> b]

NoMsg == [variant |-> "None", text |-> <<>>, bytes |-> <<>>]

\* a value of the handler's type T = struct { id: u64 }
Obj(n) == [type |-> "Obj", id |-> n]

\* a Serialize value serde_json cannot encode: a map whose keys are tuples
TupleKeyMap == [type |-> "TupleKeyMap", id |-> 0]

NoVal == [type |-> "None", id |-> 0]

Hi == <<"h", "i">>
Empty == <<>>
NotJson == <<"n", "o", "t", " ", "j", "s", "o", "n">>
Id5 == <<"{", "\"", "i", "d", "\"", ":", "5", "}">>
Id12Spaced == <<" ", "{", "\"", "i", "d", "\"", " ", ":", "1", "2", "}", " ">>
Id05 == <<"{", "\"", "i", "d", "\"", ":", "0", "5", "}">>
Bytes12 == <<1, 2>>

Urls == {"wss://example/ws", "not a url"}
Lifecycle == {"connected", "closed", "error"}
SendMsgs == {Text(Hi), Text(Empty), Binary(Bytes12)}
SendTexts == {Hi, Id5}
SendValues == {Obj(5), Obj(12), TupleKeyMap}
InMsgs == {Text(Id5), Text(Id12Spaced), Text(Id05), Text(NotJson), Binary(Bytes12)}
Rets == {"Ok", "Err"}

-----------------------------------------------------------------------------
(* Effects *)

TransportCall(prim, msg, ret) ==
    [kind |-> "transport", tag |-> prim, info |-> ret, msg |-> msg, val |-> NoVal]

Log(level, what) ==
    [kind |-> "log", tag |-> level, info |-> what, msg |-> NoMsg, val |-> NoVal]

HandlerCall(form, msg, val) ==
    [kind |-> "handler", tag |-> form, info |-> "", msg |-> msg, val |-> val]

Call(op, msg, val, url) == [op |-> op, msg |-> msg, val |-> val, url |-> url]

OfKind(es, k) == SelectSeq(es, LAMBDA e : e.kind = k)

-----------------------------------------------------------------------------
(* serde_json for T = struct { id: u64 } *)

Digits == <<"0", "1", "2", "3", "4", "5", "6", "7", "8", "9">>

IsDigit(c) == \E d \in 1..10 : Digits[d] = c
DigitVal(c) == (CHOOSE d \in 1..10 : Digits[d] = c) - 1
IsWs(c) == c \in {" ", "\n", "\t", "\r"}

RECURSIVE Itoa(_)
Itoa(n) == IF n < 10 THEN <<Digits[n + 1]>>
           ELSE Itoa(n \div 10) \o <<Digits[(n % 10) + 1]>>

\* to_string writing the last digit of the number only
to_string_last_digit(v) ==
    IF v.type = "Obj"
    THEN [ok |-> TRUE,
          text |-> <<"{", "\"", "i", "d", "\"", ":", Digits[(v.id % 10) + 1], "}">>]
    ELSE [ok |-> FALSE, text |-> <<>>]

\* serde_json::to_string(value)
to_string(v) ==
    IF v.type = "Obj"
    THEN [ok |-> TRUE, text |-> <<"{", "\"", "i", "d", "\"", ":">> \o Itoa(v.id) \o <<"}">>]
    ELSE [ok |-> FALSE, text |-> <<>>]

RECURSIVE SkipWs(_, _)
SkipWs(s, i) == IF i <= Len(s) /\ IsWs(s[i]) THEN SkipWs(s, i + 1) ELSE i

At(s, i, lit) ==
    /\ i + Len(lit) - 1 <= Len(s)
    /\ SubSeq(s, i, i + Len(lit) - 1) = lit

RECURSIVE ParseDigits(_, _, _)
ParseDigits(s, i, acc) ==
    IF i <= Len(s) /\ IsDigit(s[i])
    THEN ParseDigits(s, i + 1, acc * 10 + DigitVal(s[i]))
    ELSE [ok |-> TRUE, val |-> acc, next |-> i]

\* an unsigned integer at position i: a leading zero may not be followed by a digit
ParseU64(s, i) ==
    IF i > Len(s) \/ ~IsDigit(s[i]) THEN [ok |-> FALSE, val |-> 0, next |-> i]
    ELSE IF s[i] = "0"
         THEN IF i + 1 <= Len(s) /\ IsDigit(s[i + 1])
              THEN [ok |-> FALSE, val |-> 0, next |-> i]
              ELSE [ok |-> TRUE, val |-> 0, next |-> i + 1]
         ELSE ParseDigits(s, i, 0)

\* the number, the closing bracket and nothing but whitespace after it
ParseTail(s, i, close) ==
    LET num == ParseU64(s, i)
        j == SkipWs(s, num.next)
    IN  IF num.ok /\ At(s, j, <<close>>) /\ SkipWs(s, j + 1) = Len(s) + 1
        THEN [ok |-> TRUE, val |-> Obj(num.val)]
        ELSE [ok |-> FALSE, val |-> NoVal]

\* serde_json::from_str::<T>(&text): the map form {"id":n} or the sequence form [n]
from_str(s) ==
    LET i1 == SkipWs(s, 1) IN
    IF At(s, i1, <<"{">>)
    THEN LET i2 == SkipWs(s, i1 + 1)
             i3 == SkipWs(s, i2 + 4)
         IN  IF At(s, i2, <<"\"", "i", "d", "\"">>) /\ At(s, i3, <<":">>)
             THEN ParseTail(s, SkipWs(s, i3 + 1), "}")
             ELSE [ok |-> FALSE, val |-> NoVal]
    ELSE IF At(s, i1, <<"[">>)
         THEN ParseTail(s, SkipWs(s, i1 + 1), "]")
         ELSE [ok |-> FALSE, val |-> NoVal]

-----------------------------------------------------------------------------
(* The outbound gate *)

\* send without the gate: the transport is called whatever connected is
SendEffectsUngated(conn, msg, ret) ==
    LET sent == IF msg.variant = "Text"
                THEN TransportCall("send_string", Str(msg.text), ret)
                ELSE TransportCall("send_binary", Vec(msg.bytes), ret)
    IN  IF ret = "Err" THEN <<sent, Log("error", "send_failed")>> ELSE <<sent>>

\* send with the two primitives swapped between the variants
SendEffectsSwapped(conn, msg, ret) ==
    IF conn
    THEN LET sent == IF msg.variant = "Text"
                     THEN TransportCall("send_binary", Vec(msg.bytes), ret)
                     ELSE TransportCall("send_string", Str(msg.text), ret)
         IN  IF ret = "Err" THEN <<sent, Log("error", "send_failed")>> ELSE <<sent>>
    ELSE <<Log("error", "not_connected")>>

\* DioxusWs::send: the gate on connected, the primitive by variant, the
\* transport's result ret logged when it is an error
SendEffects(conn, msg, ret) ==
    IF conn
    THEN LET sent == IF msg.variant = "Text"
                     THEN TransportCall("send_string", Str(msg.text), ret)
                     ELSE TransportCall("send_binary", Vec(msg.bytes), ret)
         IN  IF ret = "Err" THEN <<sent, Log("error", "send_failed")>> ELSE <<sent>>
    ELSE <<Log("error", "not_connected")>>

-----------------------------------------------------------------------------
(* The inbound handler forms *)

\* the closure set by use_ws_context_provider: handler(message)
RawForm(msg) == <<HandlerCall("raw", msg, NoVal)>>

\* the text wrapper logging the Binary messages it drops
TextFormLogsBinary(msg) ==
    IF msg.variant = "Text" THEN <<HandlerCall("text", Str(msg.text), NoVal)>>
    ELSE <<Log("error", "binary_unsupported")>>

\* the wrapper of use_ws_context_provider_text
TextForm(msg) ==
    IF msg.variant = "Text" THEN <<HandlerCall("text", Str(msg.text), NoVal)>>
    ELSE <<>>

\* the JSON wrapper handing the handler a default value when decoding fails
JsonFormDefaultOnError(msg) ==
    IF msg.variant = "Text"
    THEN LET json == from_str(msg.text)
         IN  IF json.ok THEN <<HandlerCall("json", NoMsg, json.val)>>
             ELSE <<Log("error", "deserialize_failed"), HandlerCall("json", NoMsg, Obj(0))>>
    ELSE <<Log("error", "binary_unsupported")>>

\* the JSON wrapper dropping Binary messages silently, as the text wrapper does
JsonFormSilentBinary(msg) ==
    IF msg.variant = "Text"
    THEN LET json == from_str(msg.text)
         IN  IF json.ok THEN <<HandlerCall("json", NoMsg, json.val)>>
             ELSE <<Log("error", "deserialize_failed")>>
    ELSE <<>>

\* the wrapper of use_ws_context_provider_json
JsonForm(msg) ==
    IF msg.variant = "Text"
    THEN LET json == from_str(msg.text)
         IN  IF json.ok THEN <<HandlerCall("json", NoMsg, json.val)>>
             ELSE <<Log("error", "deserialize_failed")>>
    ELSE <<Log("error", "binary_unsupported")>>

Dispatch(form, msg) ==
    CASE form = "raw" -> RawForm(msg)
      [] form = "text" -> TextForm(msg)
      [] form = "json" -> JsonForm(msg)
      [] OTHER -> <<>>

-----------------------------------------------------------------------------
(* History *)

Tracked == {"not_connected", "send_failed", "deserialize_failed"}

Outcomes(es) == {es[i].info : i \in {j \in DOMAIN es : es[j].kind = "log"}} \cap Tracked

Remember == past' = past \cup Outcomes(effects)

\* a call that is no delivery of an inbound message
NoDelivery == UNCHANGED <<delivered, handled>>

\* a call that is neither a provider, nor a retrieval, nor the teardown
AtRest == UNCHANGED <<stack, borrows, body, borrowFailed>>

SameScope == UNCHANGED <<slot, latest, news, clients, contexts, handles, torn>>

\* a call that runs no handler and returns ()
Plain == invoked' = "none" /\ returned' = "unit"

-----------------------------------------------------------------------------
(* Initial state: the component is mounted, no provider has run *)

\* the RefCells of a DioxusWs, and a RefCell nobody has borrowed
Cells == {"connected", "event_client"}

Free == [shared |-> 0, mut |-> FALSE]

NoCall == Call("none", NoMsg, NoVal, "")

Init ==
    /\ hookRan = FALSE
    /\ provided = FALSE
    /\ connected = FALSE
    /\ onMessage = "none"
    /\ panicked = FALSE
    /\ call = NoCall
    /\ effects = <<>>
    /\ events = <<>>
    /\ delivered = <<>>
    /\ handled = <<>>
    /\ past = {}
    /\ slot = "none"
    /\ latest = "none"
    /\ invoked = "none"
    /\ news = 0
    /\ clients = 0
    /\ contexts = 0
    /\ handles = {}
    /\ returned = "unit"
    /\ torn = FALSE
    /\ stack = <<>>
    /\ borrows = [cell \in Cells |-> Free]
    /\ body = "quiet"
    /\ borrowFailed = FALSE

-----------------------------------------------------------------------------
(* Providers *)

\* wasm_sockets::EventClient::new(url)
EventClientNew(url) == IF url = "wss://example/ws" THEN "Ok" ELSE "Err"

\* new unwrapping a client it takes for granted
new_always_ok(url) == [ok |-> TRUE, connected |-> FALSE]

\* DioxusWs::new(url): the error of EventClient::new, or a DioxusWs whose
\* connected is false
new(url) ==
    IF EventClientNew(url) = "Err" THEN [ok |-> FALSE, connected |-> FALSE]
    ELSE [ok |-> TRUE, connected |-> FALSE]

\* the closure a provider is passed: h1 at the first invocation in the scope,
\* h2 stands for the closure of every later invocation
Closure == IF hookRan THEN "h2" ELSE "h1"

\* what the initializer of the hook does
Initialize(url, form) ==
    /\ hookRan' = TRUE
    /\ news' = news + 1
    /\ LET ws == new(url) IN
       IF ~ws.ok
       THEN /\ effects' = <<Log("error", "create_failed")>>
            /\ UNCHANGED <<provided, connected, onMessage>>
            /\ UNCHANGED <<slot, clients, contexts>>
       ELSE /\ clients' = clients + 1
            /\ contexts' = contexts + 1
            /\ provided' = TRUE
            /\ connected' = ws.connected
            /\ onMessage' = form
            /\ slot' = Closure
            /\ effects' = <<>>

\* a provider without the hook: the initializer runs at every invocation
ProvideEveryRender(url, form) ==
    /\ latest' = Closure
    /\ Plain
    /\ UNCHANGED <<handles, torn>>
    /\ news < 3
    /\ Initialize(url, form)

\* a provider that sets the on_message slot at every invocation
ProvideReplaces(url, form) ==
    /\ latest' = Closure
    /\ Plain
    /\ UNCHANGED <<handles, torn>>
    /\ IF hookRan
       THEN /\ effects' = <<>>
            /\ slot' = IF provided THEN Closure ELSE slot
            /\ onMessage' = IF provided THEN form ELSE onMessage
            /\ UNCHANGED <<hookRan, provided, connected>>
            /\ UNCHANGED <<news, clients, contexts>>
       ELSE Initialize(url, form)

\* a provider whose initializer runs again as long as no context is registered
ProvideRetries(url, form) ==
    /\ latest' = Closure
    /\ Plain
    /\ UNCHANGED <<handles, torn>>
    /\ news < 3
    /\ IF provided
       THEN /\ effects' = <<>>
            /\ UNCHANGED <<hookRan, provided, connected, onMessage>>
            /\ UNCHANGED <<slot, news, clients, contexts>>
       ELSE Initialize(url, form)

\* the body of a provider: Rc::new(handler), then cx.use_hook, whose
\* initializer runs once per scope
Provide(url, form) ==
    /\ latest' = Closure
    /\ Plain
    /\ UNCHANGED <<handles, torn>>
    /\ IF hookRan
       THEN /\ effects' = <<>>
            /\ UNCHANGED <<hookRan, provided, connected, onMessage>>
            /\ UNCHANGED <<slot, news, clients, contexts>>
       ELSE Initialize(url, form)

use_ws_context_provider(url) ==
    /\ ~panicked
    /\ ~torn
    /\ call' = Call("use_ws_context_provider", NoMsg, NoVal, url)
    /\ Provide(url, "raw")
    /\ Remember
    /\ AtRest
    /\ NoDelivery
    /\ UNCHANGED <<panicked, events>>

use_ws_context_provider_text(url) ==
    /\ ~panicked
    /\ ~torn
    /\ call' = Call("use_ws_context_provider_text", NoMsg, NoVal, url)
    /\ Provide(url, "text")
    /\ Remember
    /\ AtRest
    /\ NoDelivery
    /\ UNCHANGED <<panicked, events>>

use_ws_context_provider_json(url) ==
    /\ ~panicked
    /\ ~torn
    /\ call' = Call("use_ws_context_provider_json", NoMsg, NoVal, url)
    /\ Provide(url, "json")
    /\ Remember
    /\ AtRest
    /\ NoDelivery
    /\ UNCHANGED <<panicked, events>>

-----------------------------------------------------------------------------
(* Retrieval and teardown *)

\* consume_context handing out a copy of the flag as it is at the retrieval
consume_context_snapshot == [cell |-> "own", snap |-> connected]

\* cx.consume_context::<DioxusWs>() on a registered context: a clone of the
\* DioxusWs, whose Rc fields point at the cells of the registered one
consume_context == [cell |-> "ctx", snap |-> FALSE]

\* use_ws_context: the clone, or the panic of unwrap() on None
use_ws_context ==
    /\ ~panicked
    /\ ~torn
    /\ call' = Call("use_ws_context", NoMsg, NoVal, "")
    /\ effects' = <<>>
    /\ invoked' = "none"
    /\ IF provided
       THEN /\ handles' = handles \cup {consume_context}
            /\ returned' = "handle"
            /\ UNCHANGED panicked
       ELSE /\ panicked' = TRUE
            /\ returned' = "panic"
            /\ UNCHANGED handles
    /\ Remember
    /\ AtRest
    /\ NoDelivery
    /\ UNCHANGED <<hookRan, provided, connected, onMessage, events>>
    /\ UNCHANGED <<slot, latest, news, clients, contexts, torn>>

\* the scope is dropped: the context store entry and the handles of the
\* subtree go with it; DioxusWs has no Drop, nothing closes the socket or
\* clears the callback slots of the EventClient
teardown ==
    /\ ~panicked
    /\ ~torn
    /\ torn' = TRUE
    /\ provided' = FALSE
    /\ handles' = {}
    /\ call' = Call("teardown", NoMsg, NoVal, "")
    /\ effects' = <<>>
    /\ Plain
    /\ Remember
    /\ AtRest
    /\ NoDelivery
    /\ UNCHANGED <<hookRan, connected, onMessage, panicked, events>>
    /\ UNCHANGED <<slot, latest, news, clients, contexts>>

-----------------------------------------------------------------------------
(* Transport callbacks *)

\* the EventClient exists and its callback slots are set
Wired == clients > 0

Delivered(op, ev) ==
    /\ ~panicked
    /\ Wired
    /\ SameScope
    /\ Plain
    /\ Len(events) + Len(delivered) < MaxCallbacks
    /\ events' = Append(events, ev)
    /\ call' = Call(op, NoMsg, NoVal, "")
    /\ Remember
    /\ AtRest
    /\ NoDelivery
    /\ UNCHANGED <<hookRan, provided, onMessage, panicked>>

\* on_error treating the error as a close
on_error_closes ==
    /\ Delivered("on_error", "error")
    /\ effects' = <<Log("error", "socket_error")>>
    /\ connected' = FALSE

on_error ==
    /\ Delivered("on_error", "error")
    /\ effects' = <<Log("error", "socket_error")>>
    /\ UNCHANGED connected

on_connection ==
    /\ Delivered("on_connection", "connected")
    /\ connected' = TRUE
    /\ effects' = <<>>

\* on_close flipping the flag
on_close_toggles ==
    /\ Delivered("on_close", "closed")
    /\ effects' = <<Log("info", "closed")>>
    /\ connected' = ~connected

on_close ==
    /\ Delivered("on_close", "closed")
    /\ effects' = <<Log("info", "closed")>>
    /\ connected' = FALSE

\* on_message taking an inbound message as proof of a live connection
on_message_marks_connected(msg) ==
    /\ ~panicked
    /\ Wired
    /\ SameScope
    /\ returned' = "unit"
    /\ Len(events) + Len(delivered) < MaxCallbacks
    /\ call' = Call("on_message", msg, NoVal, "")
    /\ effects' = Dispatch(onMessage, msg)
    /\ delivered' = Append(delivered, msg)
    /\ handled' = handled \o OfKind(effects', "handler")
    /\ invoked' = IF OfKind(effects', "handler") # <<>> THEN slot ELSE "none"
    /\ connected' = TRUE
    /\ Remember
    /\ AtRest
    /\ UNCHANGED <<hookRan, provided, onMessage, panicked, events>>

\* on_message dropping what arrives while connected is false
on_message_when_connected(msg) ==
    /\ ~panicked
    /\ Wired
    /\ SameScope
    /\ returned' = "unit"
    /\ Len(events) + Len(delivered) < MaxCallbacks
    /\ call' = Call("on_message", msg, NoVal, "")
    /\ effects' = IF connected THEN Dispatch(onMessage, msg) ELSE <<>>
    /\ delivered' = Append(delivered, msg)
    /\ handled' = handled \o OfKind(effects', "handler")
    /\ invoked' = IF OfKind(effects', "handler") # <<>> THEN slot ELSE "none"
    /\ Remember
    /\ AtRest
    /\ UNCHANGED <<hookRan, provided, connected, onMessage, panicked, events>>

on_message(msg) ==
    /\ ~panicked
    /\ Wired
    /\ SameScope
    /\ returned' = "unit"
    /\ Len(events) + Len(delivered) < MaxCallbacks
    /\ call' = Call("on_message", msg, NoVal, "")
    /\ effects' = Dispatch(onMessage, msg)
    /\ delivered' = Append(delivered, msg)
    /\ handled' = handled \o OfKind(effects', "handler")
    /\ invoked' = IF OfKind(effects', "handler") # <<>> THEN slot ELSE "none"
    /\ Remember
    /\ AtRest
    /\ UNCHANGED <<hookRan, provided, connected, onMessage, panicked, events>>

-----------------------------------------------------------------------------
(* Public send operations *)

\* self.connected of a handle: the Rc of a clone is the cell of the context
Flag(ws) == IF ws.cell = "ctx" THEN connected ELSE ws.snap

\* send taking a transport error as the end of the connection
ForwardDisconnectsOnError(msg, ret) ==
    /\ \E ws \in handles : effects' = SendEffects(Flag(ws), msg, ret)
    /\ connected' = (connected /\ ret # "Err")
    /\ UNCHANGED <<hookRan, provided, onMessage, panicked, events>>

Forward(msg, ret) ==
    /\ \E ws \in handles : effects' = SendEffects(Flag(ws), msg, ret)
    /\ UNCHANGED <<hookRan, provided, connected, onMessage, panicked, events>>

send(msg, ret) ==
    /\ ~panicked
    /\ ~torn
    /\ handles # {}
    /\ SameScope
    /\ Plain
    /\ call' = Call("send", msg, NoVal, "")
    /\ Forward(msg, ret)
    /\ Remember
    /\ AtRest
    /\ NoDelivery

\* send_text calling the transport itself, past the gate of send
send_text_ungated(text, ret) ==
    /\ ~panicked
    /\ ~torn
    /\ handles # {}
    /\ SameScope
    /\ Plain
    /\ call' = Call("send_text", Str(text), NoVal, "")
    /\ effects' = SendEffects(TRUE, Text(text), ret)
    /\ UNCHANGED <<hookRan, provided, connected, onMessage, panicked, events>>
    /\ Remember
    /\ AtRest
    /\ NoDelivery

send_text(text, ret) ==
    /\ ~panicked
    /\ ~torn
    /\ handles # {}
    /\ SameScope
    /\ Plain
    /\ call' = Call("send_text", Str(text), NoVal, "")
    /\ Forward(Text(text), ret)
    /\ Remember
    /\ AtRest
    /\ NoDelivery

\* send_json testing connected before it serializes
send_json_gate_first(value, ret) ==
    /\ ~panicked
    /\ ~torn
    /\ handles # {}
    /\ SameScope
    /\ invoked' = "none"
    /\ returned' = IF to_string(value).ok THEN "unit" ELSE "panic"
    /\ call' = Call("send_json", NoMsg, value, "")
    /\ LET json == to_string(value)
       IN  IF ~connected \/ json.ok
           THEN Forward(Text(json.text), ret)
           ELSE /\ panicked' = TRUE
                /\ effects' = <<>>
                /\ UNCHANGED <<hookRan, provided, connected, onMessage, events>>
    /\ Remember
    /\ AtRest
    /\ NoDelivery

send_json(value, ret) ==
    /\ ~panicked
    /\ ~torn
    /\ handles # {}
    /\ SameScope
    /\ invoked' = "none"
    /\ returned' = IF to_string(value).ok THEN "unit" ELSE "panic"
    /\ call' = Call("send_json", NoMsg, value, "")
    /\ LET json == to_string(value)
       IN  IF json.ok
           THEN Forward(Text(json.text), ret)
           ELSE /\ panicked' = TRUE
                /\ effects' = <<>>
                /\ UNCHANGED <<hookRan, provided, connected, onMessage, events>>
    /\ Remember
    /\ AtRest
    /\ NoDelivery

-----------------------------------------------------------------------------

\* the peer sending back the text the last send_json put on the socket
Echo ==
    IF call.op = "send_json"
    THEN {Text(effects[i].msg.text) :
            i \in {j \in DOMAIN effects : effects[j].kind = "transport"}}
    ELSE {}

Next ==
    \/ \E url \in Urls : use_ws_context_provider(url)
    \/ \E url \in Urls : use_ws_context_provider_text(url)
    \/ \E url \in Urls : use_ws_context_provider_json(url)
    \/ on_error
    \/ on_connection
    \/ on_close
    \/ \E msg \in InMsgs \cup Echo : on_message(msg)
    \/ \E msg \in SendMsgs, ret \in Rets : send(msg, ret)
    \/ \E text \in SendTexts, ret \in Rets : send_text(text, ret)
    \/ \E value \in SendValues, ret \in Rets : send_json(value, ret)
    \/ use_ws_context
    \/ teardown

Spec == Init /\ [][Next]_vars

-----------------------------------------------------------------------------
(* The same calls statement by statement, for the RefCell borrows. One call
   runs to completion before the next begins: the browser's event loop and
   the renderer are one thread, and nothing in a call yields. A call inside a
   call (the handler inside on_message, send inside the handler) is a frame
   on top of the caller's frame. *)

Bodies == {"quiet", "send", "send_text", "send_json"}

Ins(i, cell, to) == [i |-> i, cell |-> cell, to |-> to]

Frame(op, url, h) == [op |-> op, pc |-> 1, flag |-> FALSE, url |-> url, h |-> h]

\* the statements of DioxusWs::send
SendScript ==
    << Ins("borrow", "connected", 0),       \* self.connected.borrow()
       Ins("read", "connected", 0),         \* if *...
       Ins("release", "connected", 0),      \* the temporary of the condition
       Ins("unless", "", 9),                \* else branch
       Ins("borrow", "event_client", 0),    \* self.event_client.borrow()
       Ins("plain", "", 0),                 \* .send_string / .send_binary
       Ins("release", "event_client", 0),   \* end of let result = ...;
       Ins("jump", "", 10),                 \* if let Err(err) = result
       Ins("plain", "", 0) >>               \* log::error!, not connected

\* the provider's on_message closure writing the flag and holding the RefMut
\* while the handler runs
ScriptHoldingFlag(op) ==
    CASE op = "on_error" -> << Ins("plain", "", 0) >>
      [] op = "on_connection" ->
            << Ins("borrow_mut", "connected", 0),
               Ins("write", "connected", 1),
               Ins("release_mut", "connected", 0) >>
      [] op = "on_close" ->
            << Ins("plain", "", 0),
               Ins("borrow_mut", "connected", 0),
               Ins("write", "connected", 0),
               Ins("release_mut", "connected", 0) >>
      [] op = "on_message" ->
            << Ins("borrow_mut", "connected", 0),
               Ins("write", "connected", 1),
               Ins("call", "handler", 0),
               Ins("release_mut", "connected", 0) >>
      [] op = "handler" ->
            IF body = "quiet" THEN << >> ELSE << Ins("call", body, 0) >>
      [] op = "send" -> SendScript
      [] op = "send_text" -> << Ins("call", "send", 0) >>
      [] op = "send_json" -> << Ins("plain", "", 0), Ins("call", "send", 0) >>
      [] op = "provider" ->
            << Ins("use_hook", "", 7),
               Ins("new", "", 7),
               Ins("provide_context", "", 0),
               Ins("borrow_mut", "event_client", 0),
               Ins("set_on_message", "", 0),
               Ins("release_mut", "event_client", 0) >>

\* the statements of each call, in program order
Script(op) ==
    CASE op = "on_error" -> << Ins("plain", "", 0) >>
      [] op = "on_connection" ->
            << Ins("borrow_mut", "connected", 0),
               Ins("write", "connected", 1),
               Ins("release_mut", "connected", 0) >>
      [] op = "on_close" ->
            << Ins("plain", "", 0),
               Ins("borrow_mut", "connected", 0),
               Ins("write", "connected", 0),
               Ins("release_mut", "connected", 0) >>
      [] op = "on_message" -> << Ins("call", "handler", 0) >>
      [] op = "handler" ->
            IF body = "quiet" THEN << >> ELSE << Ins("call", body, 0) >>
      [] op = "send" -> SendScript
      [] op = "send_text" -> << Ins("call", "send", 0) >>
      [] op = "send_json" -> << Ins("plain", "", 0), Ins("call", "send", 0) >>
      [] op = "provider" ->
            << Ins("use_hook", "", 7),
               Ins("new", "", 7),
               Ins("provide_context", "", 0),
               Ins("borrow_mut", "event_client", 0),
               Ins("set_on_message", "", 0),
               Ins("release_mut", "event_client", 0) >>

Top == stack[Len(stack)]

Done == Top.pc > Len(Script(Top.op))

Cur == Script(Top.op)[Top.pc]

AtIns(i) == stack # <<>> /\ ~borrowFailed /\ ~Done /\ Cur.i = i

\* the top frame moves to statement pc
Goto(pc) == stack' = [stack EXCEPT ![Len(stack)].pc = pc]

Ghosts == UNCHANGED <<onMessage, panicked, call, effects, events, delivered,
                      handled, past, latest, invoked, handles, returned, torn>>

Registry == UNCHANGED <<hookRan, provided, slot, news, clients, contexts, body>>

\* the event loop or the renderer begins a call
Begin(op, url, h) ==
    /\ stack = <<>>
    /\ ~borrowFailed
    /\ op \in {"on_error", "on_connection", "on_close", "on_message"} => Wired
    /\ op \in {"send", "send_text", "send_json"} => provided
    /\ stack' = <<Frame(op, url, h)>>
    /\ UNCHANGED <<connected, borrows, borrowFailed>>
    /\ Registry
    /\ Ghosts

\* RefCell::borrow: panics if the cell is mutably borrowed
Borrow ==
    /\ AtIns("borrow")
    /\ IF borrows[Cur.cell].mut
       THEN borrowFailed' = TRUE /\ UNCHANGED <<stack, borrows>>
       ELSE /\ borrows' = [borrows EXCEPT ![Cur.cell].shared = @ + 1]
            /\ Goto(Top.pc + 1)
            /\ UNCHANGED borrowFailed
    /\ UNCHANGED connected
    /\ Registry
    /\ Ghosts

\* RefCell::borrow_mut: panics if the cell is borrowed at all
BorrowMut ==
    /\ AtIns("borrow_mut")
    /\ IF borrows[Cur.cell] # Free
       THEN borrowFailed' = TRUE /\ UNCHANGED <<stack, borrows>>
       ELSE /\ borrows' = [borrows EXCEPT ![Cur.cell].mut = TRUE]
            /\ Goto(Top.pc + 1)
            /\ UNCHANGED borrowFailed
    /\ UNCHANGED connected
    /\ Registry
    /\ Ghosts

\* the Ref is dropped
Release ==
    /\ AtIns("release")
    /\ borrows' = [borrows EXCEPT ![Cur.cell].shared = @ - 1]
    /\ Goto(Top.pc + 1)
    /\ UNCHANGED <<connected, borrowFailed>>
    /\ Registry
    /\ Ghosts

\* the RefMut is dropped
ReleaseMut ==
    /\ AtIns("release_mut")
    /\ borrows' = [borrows EXCEPT ![Cur.cell].mut = FALSE]
    /\ Goto(Top.pc + 1)
    /\ UNCHANGED <<connected, borrowFailed>>
    /\ Registry
    /\ Ghosts

\* *borrowed = true / false
Write ==
    /\ AtIns("write")
    /\ connected' = (Cur.to = 1)
    /\ Goto(Top.pc + 1)
    /\ UNCHANGED <<borrows, borrowFailed>>
    /\ Registry
    /\ Ghosts

\* the condition of send reads the flag through the Ref
Read ==
    /\ AtIns("read")
    /\ stack' = [stack EXCEPT ![Len(stack)].flag = connected,
                              ![Len(stack)].pc = @ + 1]
    /\ UNCHANGED <<connected, borrows, borrowFailed>>
    /\ Registry
    /\ Ghosts

\* if / else on what was read, and the end of the then branch
Branch ==
    /\ AtIns("unless") \/ AtIns("jump")
    /\ Goto(IF Cur.i = "unless" /\ Top.flag THEN Top.pc + 1 ELSE Cur.to)
    /\ UNCHANGED <<connected, borrows, borrowFailed>>
    /\ Registry
    /\ Ghosts

\* a statement that touches no RefCell: a log line, the socket primitive,
\* serde_json::to_string
PlainStep ==
    /\ AtIns("plain")
    /\ Goto(Top.pc + 1)
    /\ UNCHANGED <<connected, borrows, borrowFailed>>
    /\ Registry
    /\ Ghosts

\* a call: the callee's frame goes on top, the caller resumes after it
CallFn ==
    /\ AtIns("call")
    /\ stack' = Append([stack EXCEPT ![Len(stack)].pc = @ + 1],
                       Frame(Cur.cell, "", "quiet"))
    /\ UNCHANGED <<connected, borrows, borrowFailed>>
    /\ Registry
    /\ Ghosts

\* the end of a function
Return ==
    /\ stack # <<>>
    /\ ~borrowFailed
    /\ Done
    /\ stack' = SubSeq(stack, 1, Len(stack) - 1)
    /\ UNCHANGED <<connected, borrows, borrowFailed>>
    /\ Registry
    /\ Ghosts

\* cx.use_hook: the initializer runs at the first invocation only
UseHook ==
    /\ AtIns("use_hook")
    /\ IF hookRan
       THEN Goto(Cur.to) /\ UNCHANGED hookRan
       ELSE Goto(Top.pc + 1) /\ hookRan' = TRUE
    /\ UNCHANGED <<connected, borrows, borrowFailed>>
    /\ UNCHANGED <<provided, slot, news, clients, contexts, body>>
    /\ Ghosts

\* DioxusWs::new, and the early return of the initializer on Err
NewStep ==
    /\ AtIns("new")
    /\ news' = news + 1
    /\ IF new(Top.url).ok
       THEN /\ clients' = clients + 1
            /\ connected' = new(Top.url).connected
            /\ Goto(Top.pc + 1)
       ELSE /\ Goto(Cur.to)
            /\ UNCHANGED <<clients, connected>>
    /\ UNCHANGED <<borrows, borrowFailed>>
    /\ UNCHANGED <<hookRan, provided, slot, contexts, body>>
    /\ Ghosts

\* cx.provide_context(ws.unwrap())
ProvideContext ==
    /\ AtIns("provide_context")
    /\ provided' = TRUE
    /\ contexts' = contexts + 1
    /\ Goto(Top.pc + 1)
    /\ UNCHANGED <<connected, borrows, borrowFailed>>
    /\ UNCHANGED <<hookRan, slot, news, clients, body>>
    /\ Ghosts

\* EventClient::set_on_message through the RefMut
SetOnMessage ==
    /\ AtIns("set_on_message")
    /\ slot' = "h1"
    /\ body' = Top.h
    /\ Goto(Top.pc + 1)
    /\ UNCHANGED <<connected, borrows, borrowFailed>>
    /\ UNCHANGED <<hookRan, provided, news, clients, contexts>>
    /\ Ghosts

BorrowOps == {"on_error", "on_connection", "on_close", "on_message",
              "send", "send_text", "send_json"}

NextBorrow ==
    \/ \E op \in BorrowOps : Begin(op, "", "quiet")
    \/ \E url \in Urls, h \in Bodies : Begin("provider", url, h)
    \/ Borrow
    \/ BorrowMut
    \/ Release
    \/ ReleaseMut
    \/ Write
    \/ Read
    \/ Branch
    \/ PlainStep
    \/ CallFn
    \/ Return
    \/ UseHook
    \/ NewStep
    \/ ProvideContext
    \/ SetOnMessage

SpecBorrow == Init /\ [][NextBorrow]_vars

-----------------------------------------------------------------------------
(* Vocabulary of the properties *)

SendOps == {"send", "send_text", "send_json"}

ProgramState == <<hookRan, provided, connected, onMessage, panicked>>

TransportCalls(es) == OfKind(es, "transport")
HandlerCalls(es) == OfKind(es, "handler")

\* a connected event was delivered and no closed event after the latest one
GateOpen(ev) ==
    \E i \in DOMAIN ev :
        /\ ev[i] = "connected"
        /\ \A j \in (i + 1)..Len(ev) : ev[j] # "closed"

\* the message a send operation was asked to send
Asked(c) ==
    CASE c.op = "send" -> c.msg
      [] c.op = "send_text" -> Text(c.msg.text)
      [] c.op = "send_json" -> Text(to_string(c.val).text)
      [] OTHER -> NoMsg

\* the one transport call that carries message m unchanged
Carries(e, m) ==
    /\ e.kind = "transport"
    /\ \/ m.variant = "Text" /\ e.tag = "send_string" /\ e.msg = Str(m.text)
       \/ m.variant = "Binary" /\ e.tag = "send_binary" /\ e.msg = Vec(m.bytes)

\* a transport call of es returned an error
Failed(es) == \E i \in DOMAIN es : es[i].kind = "transport" /\ es[i].info = "Err"

\* the last call was a send operation that got as far as send
Sent(c, p) == c.op \in SendOps /\ ~p

-----------------------------------------------------------------------------
(* C1..C10 *)

\* C1: a send call reaches the transport if and only if a connected event has
\* been delivered and no closed event has been delivered after the latest
\* connected event; error events do not count as closed.
C1_SendIffGateOpen ==
    Sent(call, panicked) => (TransportCalls(effects) # <<>> <=> GateOpen(events))

C1_Witness ==
    /\ call.op = "send"
    /\ events = <<"connected", "error">>
    /\ Len(TransportCalls(effects)) = 1

\* C2: a send while not connected makes no transport call, logs exactly one
\* error and changes nothing; no call other than a send operation makes a
\* transport call, and a send operation's transport call carries the message of
\* that very call, so a dropped message is never sent later.
C2_DroppedForGood ==
    [][/\ (Sent(call', panicked') /\ ~connected) =>
            /\ effects' = <<Log("error", "not_connected")>>
            /\ UNCHANGED ProgramState
       /\ \A i \in DOMAIN effects' :
            effects'[i].kind = "transport" =>
                /\ call'.op \in SendOps
                /\ Carries(effects'[i], Asked(call'))]_vars

C2_Witness ==
    /\ "not_connected" \in past
    /\ call.op = "on_connection"
    /\ connected
    /\ effects = <<>>

\* C3: a send while connected makes exactly one transport call, send_string
\* with the text of a Text message, send_binary with the bytes of a Binary one.
C3_OnePrimitiveByVariant ==
    [][(call'.op = "send" /\ connected) =>
            /\ Len(TransportCalls(effects')) = 1
            /\ \E ret \in Rets :
                 effects'[1] =
                   IF call'.msg.variant = "Text"
                   THEN TransportCall("send_string", Str(call'.msg.text), ret)
                   ELSE TransportCall("send_binary", Vec(call'.msg.bytes), ret)]_vars

C3_Witness ==
    /\ call = Call("send", Binary(Bytes12), NoVal, "")
    /\ effects = <<TransportCall("send_binary", Vec(Bytes12), "Ok")>>

\* C4: when the transport's send primitive returns an error, the send logs
\* exactly one error after its one transport call, does not panic, and leaves
\* connected true and the rest of the program state as it was.
C4_TransportErrorLoggedOnly ==
    [][(Sent(call', panicked') /\ connected /\ Failed(effects')) =>
            /\ Len(effects') = 2
            /\ Carries(effects'[1], Asked(call'))
            /\ effects'[2] = Log("error", "send_failed")
            /\ ~panicked'
            /\ connected'
            /\ UNCHANGED ProgramState]_vars

C4_Witness ==
    /\ "send_failed" \in past
    /\ events = <<"connected">>
    /\ call = Call("send", Text(Hi), NoVal, "")
    /\ effects = <<TransportCall("send_string", Str(Hi), "Ok")>>

\* C5: send_text(t) does what send(Text(t)) does, and send_json(v), for a v
\* that serializes, what send(Text(encode(v))) does, in every reachable state.
C5_SendTextJsonAreSend ==
    [][/\ call'.op = "send_text" =>
            \E ret \in Rets : Forward(Text(call'.msg.text), ret)
       /\ (call'.op = "send_json" /\ to_string(call'.val).ok) =>
            \E ret \in Rets : Forward(Text(to_string(call'.val).text), ret)]_vars

C5_Witness ==
    /\ call = Call("send_json", NoMsg, Obj(12), "")
    /\ effects = <<TransportCall("send_string",
                       Str(<<"{", "\"", "i", "d", "\"", ":", "1", "2", "}">>), "Ok")>>

\* C6: when serialization fails, send_json panics, connected or not, before
\* any transport call or log and without changing connected.
C6_SerializeFailureIsFatal ==
    [][(call'.op = "send_json" /\ ~to_string(call'.val).ok) =>
            /\ panicked'
            /\ effects' = <<>>
            /\ connected' = connected]_vars

C6_Witness ==
    /\ call.op = "send_json"
    /\ call.val = TupleKeyMap
    /\ ~connected
    /\ panicked

\* C7: with the JSON form registered, an inbound Text message either decodes
\* and invokes the handler once with the decoded value and no log, or fails to
\* decode and logs one error without invoking the handler; the handler slot is
\* left as it was, so later messages are handled the same way.
C7_JsonTextOneOutcome ==
    [][(call'.op = "on_message" /\ onMessage = "json" /\ call'.msg.variant = "Text") =>
            LET json == from_str(call'.msg.text) IN
            /\ json.ok => effects' = <<HandlerCall("json", NoMsg, json.val)>>
            /\ ~json.ok => effects' = <<Log("error", "deserialize_failed")>>
            /\ call'.msg.text = Id5 => effects' = <<HandlerCall("json", NoMsg, Obj(5))>>
            /\ call'.msg.text = NotJson => Len(HandlerCalls(effects')) = 0
            /\ UNCHANGED ProgramState]_vars

C7_Witness ==
    /\ "deserialize_failed" \in past
    /\ call = Call("on_message", Text(Id5), NoVal, "")
    /\ effects = <<HandlerCall("json", NoMsg, Obj(5))>>

\* C8: with the JSON form registered, an inbound Binary message never invokes
\* the handler and logs exactly one error.
C8_JsonBinaryRejected ==
    [][(call'.op = "on_message" /\ onMessage = "json" /\ call'.msg.variant = "Binary") =>
            effects' = <<Log("error", "binary_unsupported")>>]_vars

C8_Witness ==
    /\ onMessage = "json"
    /\ call = Call("on_message", Binary(Bytes12), NoVal, "")
    /\ effects = <<Log("error", "binary_unsupported")>>

\* C9: with the text-only form registered, an inbound Binary message invokes
\* nothing and logs nothing, and an inbound Text message invokes the handler
\* once with its text unchanged.
C9_TextFormFilter ==
    [][(call'.op = "on_message" /\ onMessage = "text") =>
            effects' = IF call'.msg.variant = "Binary" THEN <<>>
                       ELSE <<HandlerCall("text", Str(call'.msg.text), NoVal)>>]_vars

C9_Witness ==
    /\ onMessage = "text"
    /\ call = Call("on_message", Binary(Bytes12), NoVal, "")
    /\ effects = <<>>

\* C10: with the raw form registered, every inbound message invokes the
\* handler exactly once with the message unchanged, whether connected is true
\* or false, so the handler's invocations are the delivered messages in the
\* order of their delivery.
C10_RawFormPassThrough ==
    /\ [][(call'.op = "on_message" /\ onMessage = "raw") =>
            effects' = <<HandlerCall("raw", call'.msg, NoVal)>>]_vars
    /\ [](onMessage = "raw" =>
            handled = [i \in 1..Len(delivered) |-> HandlerCall("raw", delivered[i], NoVal)])

C10_Witness ==
    /\ onMessage = "raw"
    /\ ~connected
    /\ delivered = <<Binary(Bytes12), Text(NotJson)>>
    /\ handled = <<HandlerCall("raw", Binary(Bytes12), NoVal),
                   HandlerCall("raw", Text(NotJson), NoVal)>>

-----------------------------------------------------------------------------
(* C11..C20 *)

ProviderOps == {"use_ws_context_provider", "use_ws_context_provider_text",
                "use_ws_context_provider_json"}

CallbackOps == {"on_error", "on_connection", "on_close", "on_message"}

\* the last call was the first provider invocation of the scope
FirstInvocation == call.op \in ProviderOps /\ latest = "h1"

Id12 == <<"{", "\"", "i", "d", "\"", ":", "1", "2", "}">>

\* C11 as stated: once a provider has been invoked, exactly one transport has
\* been constructed and exactly one ConnectionContext registered.
C11_ExactlyOneRegistered ==
    hookRan => (clients = 1 /\ contexts = 1)

\* C11: however often a provider is invoked in one scope, DioxusWs::new is
\* called exactly once, at the first invocation; one transport is constructed
\* and one ConnectionContext registered if that construction succeeds, none if
\* it fails; later invocations construct and register nothing.
C11_OnceAtFirstInvocation ==
    /\ hookRan <=> latest # "none"
    /\ news = IF hookRan THEN 1 ELSE 0
    /\ clients = contexts
    /\ clients = IF slot = "none" THEN 0 ELSE 1
    /\ FirstInvocation => clients = IF EventClientNew(call.url) = "Ok" THEN 1 ELSE 0

C11_Witness ==
    /\ call.op \in ProviderOps
    /\ latest = "h2"
    /\ news = 1
    /\ clients = 1
    /\ contexts = 1

\* C12 as stated: after a provider is invoked again with another handler, an
\* inbound message invokes the handler passed last.
C12_LatestHandlerInvoked ==
    (call.op = "on_message" /\ invoked # "none") => invoked = latest

\* C12: at most one handler runs per inbound message, and a provider invoked
\* again with another handler registers nothing: the handler of the first
\* invocation stays in the on_message slot, and it, never a later one, is what
\* every inbound message invokes.
C12_FirstHandlerStays ==
    /\ Len(HandlerCalls(effects)) <= 1
    /\ slot \in {"none", "h1"}
    /\ invoked \in {"none", "h1"}
    /\ (call.op = "on_message" /\ HandlerCalls(effects) # <<>>) => invoked = slot

C12_Witness ==
    /\ latest = "h2"
    /\ call.op = "on_message"
    /\ invoked = "h1"

\* C13 as stated: a provider whose construction fails gives its caller an
\* error value.
C13_ProviderReturnsError ==
    (FirstInvocation /\ EventClientNew(call.url) = "Err") => returned = "Err"

\* C13: when EventClient::new fails, DioxusWs::new returns the error to its
\* caller; the provider, which is that caller, logs exactly one error and
\* returns (), so the component gets no error value; no ConnectionContext is
\* registered and no callback is ever delivered.
C13_NewErrProviderLogs ==
    /\ (FirstInvocation /\ EventClientNew(call.url) = "Err") =>
            /\ ~new(call.url).ok
            /\ returned = "unit"
            /\ effects = <<Log("error", "create_failed")>>
            /\ ~provided
            /\ contexts = 0
            /\ slot = "none"
    /\ contexts = 0 => (events = <<>> /\ delivered = <<>> /\ ~connected)

C13_Witness ==
    /\ FirstInvocation
    /\ call.url = "not a url"
    /\ returned = "unit"
    /\ effects = <<Log("error", "create_failed")>>

\* C14: use_ws_context panics exactly when no ConnectionContext is registered
\* and returns a handle otherwise; after a failed construction nothing is
\* registered, no handler is wired and the initializer is not run again.
C14_RetrievalPanicsIffUnregistered ==
    /\ call.op = "use_ws_context" =>
            /\ panicked <=> ~provided
            /\ panicked <=> returned = "panic"
            /\ ~panicked => (returned = "handle" /\ handles # {})
    /\ (hookRan /\ clients = 0) => (~provided /\ slot = "none" /\ news = 1)

C14_Witness ==
    /\ call.op = "use_ws_context"
    /\ latest = "h2"
    /\ clients = 0
    /\ panicked

\* C15 as stated: after the teardown a callback the transport still delivers
\* changes connected for no handle, invokes no handler and makes no transport
\* call.
C15_NoOpAfterTeardown ==
    [][(torn /\ call'.op \in CallbackOps) =>
            /\ \A ws \in handles' : ws.cell = "ctx" => connected' = connected
            /\ HandlerCalls(effects') = <<>>
            /\ invoked' = "none"
            /\ TransportCalls(effects') = <<>>]_vars

\* C16: the text send_json(v) puts on the socket, sent back as an inbound Text
\* message to the JSON form, invokes the handler once with v and logs nothing.
C16_JsonRoundTrip ==
    [][(/\ call.op = "send_json"
        /\ TransportCalls(effects) # <<>>
        /\ call'.op = "on_message"
        /\ onMessage = "json"
        /\ call'.msg = Text(effects[1].msg.text)) =>
            effects' = <<HandlerCall("json", NoMsg, call.val)>>]_vars

C16_Witness ==
    /\ call = Call("on_message", Text(Id12), NoVal, "")
    /\ effects = <<HandlerCall("json", NoMsg, Obj(12))>>

\* C17: connected is true exactly when a connected event has been delivered
\* and no closed event after the latest one; it is false after construction,
\* and every closed event logs exactly one info entry.
C17_ConnectedTracksEvents ==
    /\ connected <=> GateOpen(events)
    /\ events = <<>> => ~connected
    /\ call.op = "on_close" => (effects = <<Log("info", "closed")>> /\ ~connected)
    /\ call.op = "on_connection" => connected

C17_Witness ==
    /\ events = <<"closed", "closed">>
    /\ ~connected
    /\ effects = <<Log("info", "closed")>>

\* C18: only on_connection and on_close change connected; on_error logs
\* exactly one error and leaves it, and so do the sends and the inbound
\* messages.
C18_OnlyOpenAndCloseWrite ==
    [][/\ connected' # connected => call'.op \in {"on_connection", "on_close"}
       /\ call'.op = "on_error" =>
            (effects' = <<Log("error", "socket_error")>> /\ connected' = connected)]_vars

C18_Witness ==
    /\ call.op = "on_message"
    /\ events = <<"connected">>
    /\ "send_failed" \in past
    /\ connected

\* C20: every handle use_ws_context has returned reads the flag of the
\* registered context, so all handles agree on forwarding or dropping a send,
\* and an event delivered after the retrieval gates them too.
C20_HandlesShareFlag ==
    \A ws \in handles :
        /\ ws.cell = "ctx"
        /\ Flag(ws) = GateOpen(events)
        /\ \A other \in handles, msg \in SendMsgs, ret \in Rets :
                SendEffects(Flag(ws), msg, ret) = SendEffects(Flag(other), msg, ret)

C20_Witness ==
    /\ handles # {}
    /\ "not_connected" \in past
    /\ events = <<"connected">>
    /\ call.op = "send"
    /\ TransportCalls(effects) # <<>>

Outstanding(cell) == borrows[cell] # Free

\* C19: with one call running to completion before the next begins, no
\* borrow() or borrow_mut() of connected or of event_client ever finds the
\* cell borrowed in a conflicting way, a handler that calls send, send_text
\* or send_json inside on_message included; no cell is ever borrowed mutably
\* and shared at once, and none stays borrowed between calls.
C19_NoBorrowConflict ==
    /\ ~borrowFailed
    /\ \A cell \in Cells : ~(borrows[cell].mut /\ borrows[cell].shared > 0)
    /\ \A cell \in Cells : borrows[cell].shared <= 1
    /\ stack = <<>> => \A cell \in Cells : ~Outstanding(cell)

C19_Witness ==
    /\ Len(stack) >= 3
    /\ stack[1].op = "on_message"
    /\ stack[2].op = "handler"
    /\ Top.op = "send"
    /\ borrows["event_client"].shared = 1

====
